---- MODULE Spec2Model ----
(***************************************************************************)
(* Madison Curling Club integration: the session-authenticated portal      *)
(* client (MCCApi), the disk cache behind Season, the Mansfield roster     *)
(* aggregation (get_mansfield_teams) and the team-card export              *)
(* (generate_team_cards_json), for one season year and one cache           *)
(* directory.                                                              *)
(*                                                                         *)
(* Python None is modelled by the id 0 where an id is expected, a dict by  *)
(* a function, a list by a sequence, a str that is searched by the         *)
(* sequence of its characters.  A team record keeps the fields the code    *)
(* reads to group, position and filter (the display names are carried      *)
(* through by the code and are left out).                                  *)
(***************************************************************************)
EXTENDS Integers, Sequences, FiniteSets, TLC

\* ------------------------------------------------------------------ bounds
MaxMembers == 2
NumRuns == 2
MaxCalls == 3

\* --------------------------------------------------------------- constants
None == 0
AvatarMinBytes == 1000
HttpOk == 200

MemberIds == 1..MaxMembers
Runs == 1..NumRuns

Wednesday == <<"W", "e", "d", "n", "e", "s", "d", "a", "y">>
Tuesday == <<"T", "u", "e", "s", "d", "a", "y">>
TuesdayWednesday == Tuesday \o <<"/">> \o Wednesday
EarlyLate == "6:35/8:45PM"
SevenPM == "7:00PM"
DefaultFilterTimes == <<EarlyLate>>

\* ------------------------------------------------------ portal data (inputs)
Member(id, gender) == [MemberId |-> id, Gender |-> gender]

\* The member lists the portal can serve: members 1..n, each "M" or "F".
MemberLists ==
  UNION { { [i \in 1..n |-> Member(i, g[i])] : g \in [1..n -> {"M", "F"}] }
          : n \in 0..MaxMembers }

\* One element of a member's team list; isdict = FALSE is an element that
\* is not a JSON object (team_entry.get raises on it); SkipIsList = TRUE is
\* a record whose "SkipID" is a JSON list holding the id (a value that
\* cannot be a dict key: skip_id in mansfield_teams raises on it).
Entry(league, day, time, lead, second, vice, skip, fifth) ==
  [isdict |-> TRUE, League |-> league, Day |-> day, Time |-> time,
   LeadID |-> lead, SecondID |-> second, ViceID |-> vice, SkipID |-> skip,
   FifthID |-> fifth, SkipIsList |-> FALSE]

Malformed ==
  [isdict |-> FALSE, League |-> "", Day |-> <<>>, Time |-> "",
   LeadID |-> None, SecondID |-> None, ViceID |-> None, SkipID |-> None,
   FifthID |-> None, SkipIsList |-> FALSE]

WedTeamOf2 == Entry("Mansfield", Wednesday, EarlyLate, 1, 2, None, 2, None)
TueTeamOf2 == Entry("Mansfield", Tuesday, SevenPM, None, None, 1, 2, 1)
WedTeamOf1 == Entry("Mansfield", Wednesday, SevenPM, 1, None, None, 1, 2)
MixTeamNoSkip == Entry("Mansfield", TuesdayWednesday, EarlyLate, None, None, None, None, None)
OtherLeague == Entry("Doubles", Wednesday, EarlyLate, 1, 2, None, 1, None)
WedTeamSkipList == [WedTeamOf2 EXCEPT !.SkipIsList = TRUE]

\* The team lists the portal can serve for a member.
TeamDatas ==
  { <<>>,
    <<Malformed, WedTeamOf2>>,
    <<WedTeamOf2, Malformed>>,
    <<TueTeamOf2>>,
    <<OtherLeague, WedTeamOf1>>,
    <<TueTeamOf2, WedTeamOf1>>,
    <<MixTeamNoSkip>>,
    <<WedTeamSkipList>> }

\* The environment of a run: what the portal can answer.
Env == [lists |-> MemberLists, datas |-> TeamDatas,
        logins |-> {"ok", "rejected"}, gets |-> {"ok", "raise"}]

\* ------------------------------------------------------------- pure helpers
\* needle in hay, for Python str.
Contains(needle, hay) ==
  \E i \in 0..(Len(hay) - Len(needle)) :
     SubSeq(hay, i + 1, i + Len(needle)) = needle

\* json.dumps writes an int key as its decimal string; int(key) reads it back.
KeyStr(i) == ToString(i)
IntOf(s) == CHOOSE i \in 0..(MaxMembers + 1) : KeyStr(i) = s

EmptyDoc == [m \in {} |-> <<>>]

\* json.dumps(self._member_team_datas), written when member_id was fetched:
\* the whole document, string keys.
DumpOnlyNewEntry(doc, member_id) ==
  [state |-> "json", doc |-> [k \in {KeyStr(member_id)} |-> doc[member_id]]]
DumpDoc(doc, member_id) ==
  [state |-> "json",
   doc |-> [k \in {KeyStr(i) : i \in DOMAIN doc} |-> doc[IntOf(k)]]]

\* The team-record file: "absent", "empty" (0 bytes, after open(path, "w")),
\* "json" (holds doc) or "garbled" (bytes that are not one JSON document).
NoTeamFile == [state |-> "absent", doc |-> EmptyDoc]
TruncatedFile == [state |-> "empty", doc |-> EmptyDoc]
GarbledFile == [state |-> "garbled", doc |-> EmptyDoc]

\* What the file can hold after a writer that opened it with "w" writes
\* mine from offset 0 and closes.  Bytes another writer put there since the
\* open stay behind the end of a shorter text, and the file is then no JSON
\* document; which text is the shorter depends on every string of the
\* records, the display names included, so both outcomes are possible.
Overwritten(file, mine) ==
  IF file.state = "empty" THEN {mine} ELSE {mine, GarbledFile}

\* json.load raises on a file that is not one JSON document.
LoadRaises(file) == file.state \in {"empty", "garbled"}

\* json.load + {int(key): value ...}; {} when the file does not exist.
LoadDocIgnoresFile(file) == EmptyDoc
LoadDoc(file) ==
  IF file.state = "json"
    THEN [i \in {IntOf(k) : k \in DOMAIN file.doc} |-> file.doc[KeyStr(i)]]
    ELSE EmptyDoc

\* MCCApi.get_session: log in only when no session is held.
GetSessionAlwaysLogin(established, login) ==
  [session |-> login = "ok", raised |-> login # "ok", handshakes |-> 1]
GetSession(established, login) ==
  IF established
    THEN [session |-> TRUE, raised |-> FALSE, handshakes |-> 0]
    ELSE [session |-> login = "ok", raised |-> login # "ok", handshakes |-> 1]

\* if member_id not in self._member_team_datas
IsCachedNever(doc, member_id) == FALSE
IsCached(doc, member_id) == member_id \in DOMAIN doc

\* if gender != "M": continue
IsMale(member) == member.Gender = "M"

\* if response.status_code == 200 and len(response.content) > 1000
AvatarAcceptedAtLeast(status, size) == status = HttpOk /\ size >= AvatarMinBytes
AvatarAccepted(status, size) == status = HttpOk /\ size > AvatarMinBytes

\* The avatar responses the portal can give.
AvatarStatuses == {HttpOk, 404}
AvatarSizes == {600, AvatarMinBytes, AvatarMinBytes + 1}

\* Index of the team with this skip id in the insertion-ordered dict, 0 if none.
TeamIndex(teams, skip_id) ==
  IF \E k \in 1..Len(teams) : teams[k].skip_id = skip_id
    THEN CHOOSE k \in 1..Len(teams) : teams[k].skip_id = skip_id
    ELSE 0

NewTeam(team_entry) ==
  [skip_id |-> team_entry.SkipID, lead_id |-> team_entry.LeadID,
   second_id |-> team_entry.SecondID, vice_id |-> team_entry.ViceID,
   fifth_id |-> team_entry.FifthID, day |-> team_entry.Day,
   time |-> team_entry.Time, league |-> team_entry.League, members |-> <<>>]

\* Where the scan of a member's team list stops: the first element that is
\* not an object (raises) or whose League is "Mansfield" (break); 0 if none.
ScanStop(team_data) ==
  IF \E j \in 1..Len(team_data) :
        ~team_data[j].isdict \/ team_data[j].League = "Mansfield"
    THEN CHOOSE j \in 1..Len(team_data) :
           /\ ~team_data[j].isdict \/ team_data[j].League = "Mansfield"
           /\ \A i \in 1..(j - 1) :
                team_data[i].isdict /\ team_data[i].League # "Mansfield"
    ELSE 0

\* skip_id not in mansfield_teams / skip_id in mansfield_teams: TypeError
\* when the skip id cannot be hashed.
Unhashable(team_entry) == team_entry.SkipIsList

\* The body of the try block of the first loop, for one member's team list:
\* an element that is not an object raises before anything is recorded; a
\* Mansfield record is appended to mansfield_members first, and the lookup
\* of its skip id raises after that when the id cannot be hashed.
FirstPass(member_id, team_data, teams, mm) ==
  LET j == ScanStop(team_data)
  IN IF j = 0 THEN [teams |-> teams, mm |-> mm, raised |-> FALSE]
     ELSE IF ~team_data[j].isdict
       THEN [teams |-> teams, mm |-> mm, raised |-> TRUE]
       ELSE [teams |-> IF Unhashable(team_data[j]) THEN teams
                       ELSE IF TeamIndex(teams, team_data[j].SkipID) = 0
                         THEN Append(teams, NewTeam(team_data[j]))
                         ELSE teams,
             mm |-> Append(mm, [member_id |-> member_id,
                                team_data |-> team_data[j]]),
             raised |-> Unhashable(team_data[j])]

\* The if/elif chain of the second loop.
PositionSkipFirst(member_id, team_data) ==
  IF member_id = team_data.SkipID THEN "Skip"
  ELSE IF member_id = team_data.LeadID THEN "Lead"
  ELSE IF member_id = team_data.SecondID THEN "Second"
  ELSE IF member_id = team_data.ViceID THEN "Vice"
  ELSE IF member_id = team_data.FifthID THEN "Fifth"
  ELSE "None"
Position(member_id, team_data) ==
  IF member_id = team_data.LeadID THEN "Lead"
  ELSE IF member_id = team_data.SecondID THEN "Second"
  ELSE IF member_id = team_data.ViceID THEN "Vice"
  ELSE IF member_id = team_data.SkipID THEN "Skip"
  ELSE IF member_id = team_data.FifthID THEN "Fifth"
  ELSE "None"

\* The second loop raises, outside any try block, at the first candidate
\* whose skip id cannot be hashed.
PopulateRaises(mm) == \E k \in 1..Len(mm) : Unhashable(mm[k].team_data)

\* The second loop: every Mansfield member is appended to the team of its
\* matched record's skip id, with its position; the loop ends at the first
\* candidate whose skip id cannot be hashed, with the members before it
\* appended.
RECURSIVE Populate(_, _, _)
Populate(teams, mm, k) ==
  IF k > Len(mm) \/ Unhashable(mm[k].team_data) THEN teams
  ELSE LET info == mm[k]
           t == TeamIndex(teams, info.team_data.SkipID)
           entry == [member_id |-> info.member_id,
                     position |-> Position(info.member_id, info.team_data)]
       IN Populate(IF t = 0 THEN teams
                   ELSE [teams EXCEPT ![t].members = Append(@, entry)],
                   mm, k + 1)

\* The last loop: the teams whose day contains "Wednesday".
WednesdayTeamsUnfiltered(teams) == teams
WednesdayTeams(teams) ==
  SelectSeq(teams, LAMBDA team : Contains(Wednesday, team.day))

\* get_mansfield_teams as a function of the member list and of a team-record
\* document that holds every male member: the first loop, the second loop
\* and the Wednesday filter; raised when the second loop raises.
RECURSIVE FirstLoop(_, _, _, _)
FirstLoop(members, doc, k, acc) ==
  IF k > Len(members) THEN acc
  ELSE IF ~IsMale(members[k]) \/ members[k].MemberId \notin DOMAIN doc
    THEN FirstLoop(members, doc, k + 1, acc)
    ELSE LET p == FirstPass(members[k].MemberId, doc[members[k].MemberId],
                            acc.teams, acc.mm)
         IN FirstLoop(members, doc, k + 1, [teams |-> p.teams, mm |-> p.mm])

Aggregate(members, doc) ==
  LET acc == FirstLoop(members, doc, 1, [teams |-> <<>>, mm |-> <<>>])
  IN IF PopulateRaises(acc.mm)
       THEN [raised |-> TRUE, teams |-> <<>>]
       ELSE [raised |-> FALSE,
             teams |-> WednesdayTeams(Populate(acc.teams, acc.mm, 1))]

\* Python's call binding: every keyword must name a parameter.
GetMansfieldTeamsParams == {"year"}
ExportCallKeywords == {"filter_times"}
CallBinds(keywords, params) == keywords \subseteq params

\* The filter_times argument: None (no flag), [] (--all-times) or the
\* non-empty list given with --times.
FilterArgs == { [given |-> FALSE, times |-> <<>>],
                [given |-> TRUE, times |-> <<>>],
                [given |-> TRUE, times |-> <<EarlyLate>>],
                [given |-> TRUE, times |-> <<EarlyLate, SevenPM>>] }

\* if filter_times is None: filter_times = ["6:35/8:45PM"]
FilterTimes(arg) == IF arg.given THEN arg.times ELSE DefaultFilterTimes

\* ------------------------------------------------------------------- state
VARIABLES
  membersFile,        \* cache/member_jsons/member_<year>.json
  teamFile,           \* cache/member_season_teams/<year>.json
  avatarFiles,        \* member ids with cache/avatars/<id>.jpg
  pc,                 \* per run: position in get_mansfield_teams
  session,            \* per run: api._session is not None
  members_json,       \* per run: the loaded member list
  idx,                \* per run: index of the first loop
  member_team_datas,  \* per run: season._member_team_datas
  mansfield_teams,    \* per run: insertion-ordered dict skip id -> team
  mansfield_members,  \* per run: the candidates of the first pass
  result,             \* per run: the returned wednesday_teams
  export,             \* per run: a generate_team_cards_json invocation
  net,                \* per run: network calls made (observer)
  cachedAtStart,      \* per run: caches complete when the run began (observer)
  skipped,            \* per run: members whose try block raised (observer)
  written,            \* <<member id, run>> of every entry written (observer)
  lastWriter,         \* run that last rewrote the team file, 0 if none (observer)
  client              \* one MCCApi instance used directly

diskVars == <<membersFile, teamFile, avatarFiles>>
loopVars == <<mansfield_teams, mansfield_members, skipped>>
raceVars == <<written, lastWriter>>
vars == <<membersFile, teamFile, avatarFiles, pc, session, members_json, idx,
          member_team_datas, mansfield_teams, mansfield_members, result,
          export, net, cachedAtStart, skipped, written, lastWriter, client>>

NoCall == [op |-> "none", member |-> None, login |-> "none", status |-> 0,
           size |-> 0, returned |-> "none", cached |-> FALSE]

Init ==
  /\ membersFile = [state |-> "absent", members |-> <<>>]
  /\ teamFile = NoTeamFile
  /\ avatarFiles = {}
  /\ pc = [r \in Runs |-> "idle"]
  /\ session = [r \in Runs |-> FALSE]
  /\ members_json = [r \in Runs |-> <<>>]
  /\ idx = [r \in Runs |-> 0]
  /\ member_team_datas = [r \in Runs |-> [loaded |-> FALSE, doc |-> EmptyDoc]]
  /\ mansfield_teams = [r \in Runs |-> <<>>]
  /\ mansfield_members = [r \in Runs |-> <<>>]
  /\ result = [r \in Runs |-> <<>>]
  /\ export = [r \in Runs |-> [called |-> FALSE, filter_times |-> <<>>,
                               complete |-> FALSE, exit |-> 0,
                               teams |-> <<>>]]
  /\ net = [r \in Runs |-> [handshakes |-> 0, gets |-> 0, rejected |-> 0]]
  /\ cachedAtStart = [r \in Runs |-> FALSE]
  /\ skipped = [r \in Runs |-> {}]
  /\ written = {}
  /\ lastWriter = 0
  /\ client = [session |-> FALSE, handshakes |-> 0, gets |-> 0, calls |-> 0,
               last |-> NoCall]

\* ------------------------------------------------------- get_mansfield_teams
Finished(r) == pc[r] \in {"idle", "done", "failed", "exit1"}
NoRunActive == \A r \in Runs : Finished(r)
\* Run slots are taken in order.
NextSlot(r) == pc[r] = "idle" /\ \A q \in 1..(r - 1) : pc[q] # "idle"

Males(members) ==
  {members[i].MemberId : i \in {k \in 1..Len(members) : IsMale(members[k])}}

CachesComplete ==
  /\ membersFile.state = "json"
  /\ \A m \in Males(membersFile.members) : KeyStr(m) \in DOMAIN teamFile.doc

\* api = MCCApi(); season = Season(api, year): no session, nothing loaded.
StartRun(r, overlap) ==
  /\ NextSlot(r)
  /\ overlap \/ NoRunActive
  /\ pc' = [pc EXCEPT ![r] = "members"]
  /\ cachedAtStart' = [cachedAtStart EXCEPT ![r] = CachesComplete]
  /\ UNCHANGED <<diskVars, session, members_json, idx, member_team_datas,
                 loopVars, result, export, net, raceVars, client>>

\* season.get_members_json(), step by step, so that another invocation can
\* see the file between the steps.  First the test os.path.exists(json_path).
MembersPathExists(r) ==
  /\ pc[r] = "members"
  /\ pc' = [pc EXCEPT ![r] = IF membersFile.state = "absent"
                               THEN "open" ELSE "load"]
  /\ UNCHANGED <<diskVars, session, members_json, idx, member_team_datas,
                 loopVars, result, export, net, cachedAtStart, raceVars,
                 client>>

\* with open(json_path, "w") as file: the file is created, or truncated,
\* before the portal is asked.
OpenMembersFile(r) ==
  /\ pc[r] = "open"
  /\ membersFile' = [state |-> "empty", members |-> <<>>]
  /\ pc' = [pc EXCEPT ![r] = "download"]
  /\ UNCHANGED <<teamFile, avatarFiles, session, members_json, idx,
                 member_team_datas, loopVars, result, export, net,
                 cachedAtStart, raceVars, client>>

\* The member-list file after a write from offset 0 over a longer text that
\* another invocation wrote since this one opened the file: bytes that are
\* not one JSON document.
GarbledMembers == [state |-> "garbled", members |-> <<>>]

\* file.write(json.dumps(self.api.get_members_json(self.year))): the session
\* is obtained, one GET is made, the list is written from offset 0 and the
\* file closed; when another invocation has written since the open, the
\* file holds this list or, when its text is the shorter, no JSON document;
\* an exception closes the file with nothing written and leaves
\* get_mansfield_teams.
DownloadMembers(r, env) ==
  /\ pc[r] = "download"
  /\ \E login \in env.logins, get \in env.gets, list \in env.lists :
       LET s == GetSession(session[r], login)
           fetched == ~s.raised /\ get = "ok"
       IN /\ membersFile' \in
               IF ~fetched THEN {membersFile}
               ELSE IF membersFile.state = "empty"
                 THEN {[state |-> "json", members |-> list]}
                 ELSE {[state |-> "json", members |-> list], GarbledMembers}
          /\ session' = [session EXCEPT ![r] = s.session]
          /\ net' = [net EXCEPT ![r] =
               [handshakes |-> @.handshakes + s.handshakes,
                gets |-> @.gets + (IF s.raised THEN 0 ELSE 1),
                rejected |-> @.rejected + (IF s.raised THEN 1 ELSE 0)]]
          /\ pc' = [pc EXCEPT ![r] = IF fetched THEN "load" ELSE "failed"]
  /\ UNCHANGED <<teamFile, avatarFiles, members_json, idx, member_team_datas,
                 loopVars, result, export, cachedAtStart, raceVars, client>>

\* return json.load(open(json_path)): a file without a JSON document raises
\* and the exception leaves get_mansfield_teams.
LoadMembersJson(r) ==
  /\ pc[r] = "load"
  /\ IF membersFile.state = "json"
       THEN /\ members_json' = [members_json EXCEPT ![r] = membersFile.members]
            /\ idx' = [idx EXCEPT ![r] = 1]
            /\ pc' = [pc EXCEPT ![r] = "loop"]
       ELSE /\ pc' = [pc EXCEPT ![r] = "failed"]
            /\ UNCHANGED <<members_json, idx>>
  /\ UNCHANGED <<diskVars, session, member_team_datas, loopVars, result,
                 export, net, cachedAtStart, raceVars, client>>

\* The try block applied to the team list returned for the current member,
\* then the next iteration.
Scanned(r, member_id, team_data) ==
  LET p == FirstPass(member_id, team_data, mansfield_teams[r],
                     mansfield_members[r])
  IN /\ mansfield_teams' = [mansfield_teams EXCEPT ![r] = p.teams]
     /\ mansfield_members' = [mansfield_members EXCEPT ![r] = p.mm]
     /\ skipped' = [skipped EXCEPT ![r] =
                      IF p.raised THEN @ \cup {member_id} ELSE @]
     /\ idx' = [idx EXCEPT ![r] = @ + 1]
     /\ pc' = [pc EXCEPT ![r] = "loop"]

\* Head of the first loop and the start of season.get_member_team_data: a
\* non-male member is passed over; the document is loaded from disk on the
\* season's first call, and when json.load raises nothing is kept, the
\* except clause of the loop passes the member over and the next call loads
\* again; a cached member is served from memory.
BeginMember(r) ==
  /\ pc[r] = "loop"
  /\ idx[r] <= Len(members_json[r])
  /\ LET member == members_json[r][idx[r]]
         doc == IF member_team_datas[r].loaded
                  THEN member_team_datas[r].doc
                  ELSE LoadDoc(teamFile)
     IN IF ~IsMale(member)
          THEN /\ idx' = [idx EXCEPT ![r] = @ + 1]
               /\ UNCHANGED <<pc, member_team_datas, loopVars>>
          ELSE IF ~member_team_datas[r].loaded /\ LoadRaises(teamFile)
          THEN /\ skipped' = [skipped EXCEPT ![r] = @ \cup {member.MemberId}]
               /\ idx' = [idx EXCEPT ![r] = @ + 1]
               /\ UNCHANGED <<pc, member_team_datas, mansfield_teams,
                              mansfield_members>>
          ELSE /\ member_team_datas' = [member_team_datas EXCEPT ![r] =
                                          [loaded |-> TRUE, doc |-> doc]]
               /\ IF IsCached(doc, member.MemberId)
                    THEN Scanned(r, member.MemberId, doc[member.MemberId])
                    ELSE /\ pc' = [pc EXCEPT ![r] = "fetch"]
                         /\ UNCHANGED <<idx, loopVars>>
  /\ UNCHANGED <<diskVars, session, members_json, result, export, net,
                 cachedAtStart, raceVars, client>>

\* self._member_team_datas[member_id] = self.api.get_member_teams(...): the
\* session is obtained, then one GET; an exception is caught by the loop's
\* except clause and the loop goes on with the next member.
FetchMemberTeams(r, env) ==
  /\ pc[r] = "fetch"
  /\ \E login \in env.logins, get \in env.gets, team_data \in env.datas :
       LET member_id == members_json[r][idx[r]].MemberId
           s == GetSession(session[r], login)
           ok == ~s.raised /\ get = "ok"
       IN /\ session' = [session EXCEPT ![r] = s.session]
          /\ net' = [net EXCEPT ![r] =
               [handshakes |-> @.handshakes + s.handshakes,
                gets |-> @.gets + (IF s.raised THEN 0 ELSE 1),
                rejected |-> @.rejected + (IF s.raised THEN 1 ELSE 0)]]
          /\ IF ok
               THEN /\ member_team_datas' = [member_team_datas EXCEPT ![r].doc =
                                               (member_id :> team_data) @@ @]
                    /\ pc' = [pc EXCEPT ![r] = "rewrite"]
                    /\ UNCHANGED <<idx, skipped>>
               ELSE /\ skipped' = [skipped EXCEPT ![r] = @ \cup {member_id}]
                    /\ idx' = [idx EXCEPT ![r] = @ + 1]
                    /\ pc' = [pc EXCEPT ![r] = "loop"]
                    /\ UNCHANGED member_team_datas
  /\ UNCHANGED <<diskVars, members_json, mansfield_teams, mansfield_members,
                 result, export, cachedAtStart, raceVars, client>>

\* with open(self.member_team_data_json, "w") as file: the file is created,
\* or truncated, before the document is written.
OpenTeamFile(r) ==
  /\ pc[r] = "rewrite"
  /\ teamFile' = TruncatedFile
  /\ pc' = [pc EXCEPT ![r] = "write"]
  /\ UNCHANGED <<membersFile, avatarFiles, session, members_json, idx,
                 member_team_datas, loopVars, result, export, net,
                 cachedAtStart, raceVars, client>>

\* file.write(json.dumps(self._member_team_datas)) and the close: the whole
\* in-memory document is written from the start of the file, the member's
\* team list is returned and scanned.
WriteTeamFile(r) ==
  /\ pc[r] = "write"
  /\ LET member_id == members_json[r][idx[r]].MemberId
         doc == member_team_datas[r].doc
     IN /\ teamFile' \in Overwritten(teamFile, DumpDoc(doc, member_id))
        /\ written' = written \cup {<<member_id, r>>}
        /\ lastWriter' = r
        /\ Scanned(r, member_id, doc[member_id])
  /\ UNCHANGED <<membersFile, avatarFiles, session, members_json,
                 member_team_datas, result, export, net, cachedAtStart, client>>

\* After the first loop: positions are assigned, the Wednesday teams are
\* selected and returned; a TypeError of the second loop leaves
\* get_mansfield_teams with the members appended so far and nothing is
\* returned.
SecondPass(r) ==
  /\ pc[r] = "loop"
  /\ idx[r] > Len(members_json[r])
  /\ LET teams == Populate(mansfield_teams[r], mansfield_members[r], 1)
     IN /\ mansfield_teams' = [mansfield_teams EXCEPT ![r] = teams]
        /\ IF PopulateRaises(mansfield_members[r])
             THEN /\ pc' = [pc EXCEPT ![r] = "failed"]
                  /\ UNCHANGED result
             ELSE /\ result' = [result EXCEPT ![r] = WednesdayTeams(teams)]
                  /\ pc' = [pc EXCEPT ![r] = "done"]
  /\ UNCHANGED <<diskVars, session, members_json, idx, member_team_datas,
                 mansfield_members, skipped, export, net, cachedAtStart,
                 raceVars, client>>

\* generate_team_cards_json: the call get_mansfield_teams(year,
\* filter_times=...) does not bind, the TypeError reaches the except clause
\* and the process exits with status 1; nothing is written.
GenerateTeamCardsJson(r, arg) ==
  /\ NextSlot(r)
  /\ NoRunActive
  /\ ~CallBinds(ExportCallKeywords, GetMansfieldTeamsParams)
  /\ pc' = [pc EXCEPT ![r] = "exit1"]
  /\ export' = [export EXCEPT ![r] =
                  [called |-> TRUE, filter_times |-> FilterTimes(arg),
                   complete |-> CachesComplete, exit |-> 1, teams |-> <<>>]]
  /\ UNCHANGED <<diskVars, session, members_json, idx, member_team_datas,
                 loopVars, result, net, cachedAtStart, raceVars, client>>

Next ==
  \/ \E r \in Runs : StartRun(r, FALSE)
  \/ \E r \in Runs : MembersPathExists(r)
  \/ \E r \in Runs : OpenMembersFile(r)
  \/ \E r \in Runs : DownloadMembers(r, Env)
  \/ \E r \in Runs : LoadMembersJson(r)
  \/ \E r \in Runs : BeginMember(r)
  \/ \E r \in Runs : FetchMemberTeams(r, Env)
  \/ \E r \in Runs : OpenTeamFile(r)
  \/ \E r \in Runs : WriteTeamFile(r)
  \/ \E r \in Runs : SecondPass(r)
  \/ \E r \in Runs, arg \in FilterArgs : GenerateTeamCardsJson(r, arg)

Spec == Init /\ [][Next]_vars

\* ------------------------------------------------------------ racing runs
\* Runs of the same year on one cache directory: the two Racers may start
\* while another run is active, so that their steps interleave;
\* every member is male and the login succeeds.
Racers == {1, 2}
RaceEnv == [lists |-> {[i \in 1..MaxMembers |-> Member(i, "M")]},
            datas |-> {<<WedTeamOf2, Malformed>>, <<TueTeamOf2>>},
            logins |-> {"ok"}, gets |-> {"ok", "raise"}]

RaceNext ==
  \/ \E r \in Runs : StartRun(r, r \in Racers)
  \/ \E r \in Runs : MembersPathExists(r)
  \/ \E r \in Runs : OpenMembersFile(r)
  \/ \E r \in Runs : DownloadMembers(r, RaceEnv)
  \/ \E r \in Runs : LoadMembersJson(r)
  \/ \E r \in Runs : BeginMember(r)
  \/ \E r \in Runs : FetchMemberTeams(r, RaceEnv)
  \/ \E r \in Runs : OpenTeamFile(r)
  \/ \E r \in Runs : WriteTeamFile(r)
  \/ \E r \in Runs : SecondPass(r)

RaceSpec == Init /\ [][RaceNext]_vars

\* ------------------------------------------------- one MCCApi used directly
runVars == <<pc, session, members_json, idx, member_team_datas, loopVars,
             result, export, net, cachedAtStart, raceVars>>

\* The session part of a call on the client: get_session, then one GET.
ClientAfter(s, got, call) ==
  [session |-> s.session,
   handshakes |-> client.handshakes + s.handshakes,
   gets |-> client.gets + (IF got THEN 1 ELSE 0),
   calls |-> client.calls + 1,
   last |-> call]

LoginOf(s) ==
  IF s.handshakes = 0 THEN "held" ELSE IF s.raised THEN "rejected" ELSE "ok"

\* api.get_members_json(year), api.get_member_data(member_id, year) and
\* api.get_member_teams(member_id, year):
\* the session is obtained, one GET is made and its body parsed.
ApiGetJson(op, member_id) ==
  /\ client.calls < MaxCalls
  /\ \E login \in {"ok", "rejected"}, get \in {"ok", "raise"} :
       LET s == GetSession(client.session, login)
       IN client' = ClientAfter(s, ~s.raised,
            [op |-> op, member |-> member_id, login |-> LoginOf(s),
             status |-> 0, size |-> 0,
             returned |-> IF s.raised \/ get = "raise" THEN "raise" ELSE "json",
             cached |-> FALSE])
  /\ UNCHANGED <<diskVars, runVars>>

\* api.get_session() called directly: the login handshake when no session
\* is held, no GET.
ApiGetSession ==
  /\ client.calls < MaxCalls
  /\ \E login \in {"ok", "rejected"} :
       LET s == GetSession(client.session, login)
       IN client' = ClientAfter(s, FALSE,
            [op |-> "session", member |-> None, login |-> LoginOf(s),
             status |-> 0, size |-> 0,
             returned |-> IF s.raised THEN "raise" ELSE "session",
             cached |-> FALSE])
  /\ UNCHANGED <<diskVars, runVars>>

ApiGetMembersJson == ApiGetJson("members", None)
ApiGetMemberData(member_id) == ApiGetJson("data", member_id)
ApiGetMemberTeams(member_id) == ApiGetJson("teams", member_id)

\* api.get_avatar_image(member_id)
ApiGetAvatarImage(member_id) ==
  /\ client.calls < MaxCalls
  /\ \E login \in {"ok", "rejected"}, get \in {"ok", "raise"},
        status \in AvatarStatuses, size \in AvatarSizes :
       LET cached == member_id \in avatarFiles
           s == GetSession(client.session, login)
           answered == ~s.raised /\ get = "ok"
           stored == answered /\ AvatarAccepted(status, size)
       IN IF member_id = None \/ cached
            THEN /\ client' = [client EXCEPT
                      !.calls = @ + 1,
                      !.last = [op |-> "avatar", member |-> member_id,
                                login |-> "none", status |-> 0, size |-> 0,
                                returned |-> IF cached THEN "path" ELSE "None",
                                cached |-> cached]]
                 /\ UNCHANGED avatarFiles
            ELSE /\ client' = ClientAfter(s, ~s.raised,
                      [op |-> "avatar", member |-> member_id,
                       login |-> LoginOf(s),
                       status |-> IF answered THEN status ELSE 0,
                       size |-> IF answered THEN size ELSE 0,
                       returned |-> IF stored THEN "path" ELSE "None",
                       cached |-> FALSE])
                 /\ avatarFiles' = IF stored THEN avatarFiles \cup {member_id}
                                    ELSE avatarFiles
  /\ UNCHANGED <<membersFile, teamFile, runVars>>

ApiNext ==
  \/ ApiGetSession
  \/ ApiGetMembersJson
  \/ \E m \in MemberIds : ApiGetMemberData(m)
  \/ \E m \in MemberIds : ApiGetMemberTeams(m)
  \/ \E m \in MemberIds \cup {None} : ApiGetAvatarImage(m)

ApiSpec == Init /\ [][ApiNext]_vars

\* ================================================================== claims
Range(seq) == {seq[i] : i \in 1..Len(seq)}

\* C1: a rejected login is fatal for the run in every cache state: the run
\* ends in failure, returns no roster, and no second login handshake is
\* attempted during that run.
C1_RejectedLoginIsFatal ==
  \A r \in Runs :
     net[r].rejected > 0 => pc[r] = "failed" /\ net[r].handshakes = 1

\* C2: a run that starts with the member-list file present and a team-record
\* entry on disk for every male member of that list makes no network call:
\* no login handshake, no member-list fetch, no member-teams fetch.
C2_NoNetworkWhenCached ==
  \A r \in Runs :
     cachedAtStart[r] => net[r].handshakes = 0 /\ net[r].gets = 0

C2_Witness ==
  \E r \in Runs :
     /\ cachedAtStart[r]
     /\ pc[r] = "done"
     /\ Males(members_json[r]) # {}
     /\ result[r] # <<>>
     /\ net[r].handshakes = 0 /\ net[r].gets = 0

\* The teams an exact-match time filter lets through; all of them when the
\* list is empty.
TimeFiltered(teams, filter_times) ==
  IF filter_times = <<>> THEN teams
  ELSE SelectSeq(teams, LAMBDA team : team.time \in Range(filter_times))

\* What aggregation returns when both caches are complete.
CachedRoster == Aggregate(membersFile.members, LoadDoc(teamFile)).teams

\* C3: generate_team_cards_json with a non-empty filter_times list produces
\* only the aggregated teams whose time is one of the listed values, and with
\* an empty list all aggregated teams.  Stated for an invocation that finds
\* both caches complete (the aggregated teams are then a function of the
\* cache) and teams of mixed time values.
C3_ExportFiltersByTime ==
  \A r \in Runs :
     (/\ export[r].called
      /\ export[r].complete
      /\ Cardinality({CachedRoster[i].time : i \in 1..Len(CachedRoster)}) > 1)
     => /\ export[r].exit = 0
        /\ export[r].teams = TimeFiltered(CachedRoster, export[r].filter_times)

\* ----------------------------------------------------------------- C4
\* What a finished run read: its member list and its in-memory document.
IsM(member) == member.Gender = "M"
IsMansfield(e) == e.isdict /\ e.League = "Mansfield"
OnWednesday(e) == Contains(Wednesday, e.Day)
SkipIds(teams) == {teams[i].skip_id : i \in 1..Len(teams)}
MemberIdsOf(team) == {team.members[i].member_id : i \in 1..Len(team.members)}

\* C4 (as claimed): a run in which no member was skipped returns exactly the
\* teams, keyed by skip id, that contain a Mansfield record with a Wednesday
\* day held by some male member, and every member of a returned team is
\* male and was placed through a Mansfield record with a Wednesday day.
C4_ExactlyWednesdayMansfieldTeams ==
  \A r \in Runs :
     (pc[r] = "done" /\ skipped[r] = {}) =>
       LET doc == member_team_datas[r].doc
           males == {k \in 1..Len(members_json[r]) : IsM(members_json[r][k])}
           held == UNION { {e \in Range(doc[members_json[r][k].MemberId]) :
                               IsMansfield(e) /\ OnWednesday(e)} : k \in males }
       IN /\ SkipIds(result[r]) = {e.SkipID : e \in held}
          /\ \A info \in Range(mansfield_members[r]) :
               info.team_data.SkipID \in SkipIds(result[r]) =>
                 /\ IsMansfield(info.team_data)
                 /\ OnWednesday(info.team_data)
          /\ \A t \in Range(result[r]) : \A m \in MemberIdsOf(t) :
               \E k \in males : members_json[r][k].MemberId = m

\* The first Mansfield record of a team list that is read without an error
\* up to that record; 0 when there is none or an earlier element raises.
FirstMansfield(team_data) ==
  LET js == {j \in 1..Len(team_data) :
               /\ IsMansfield(team_data[j])
               /\ \A i \in 1..(j - 1) :
                    team_data[i].isdict /\ ~IsMansfield(team_data[i])}
  IN IF js = {} THEN 0 ELSE CHOOSE j \in js : TRUE

\* C4 (amended): the returned teams are exactly the skip ids of the first
\* Mansfield record of the male members whose team list was obtained and
\* read without error, kept when the record of the first such member in
\* member-list order has a day containing "Wednesday"; a returned team
\* carries that record's day and lists exactly those male members whose
\* first Mansfield record has its skip id, each once; no female member and
\* no member matched through a non-Mansfield record appears.
C4_FirstMansfieldRecordDecides ==
  \A r \in Runs :
     pc[r] = "done" =>
       LET ml == members_json[r]
           doc == member_team_datas[r].doc
           cand == {k \in 1..Len(ml) :
                      /\ IsM(ml[k])
                      /\ ml[k].MemberId \in DOMAIN doc
                      /\ FirstMansfield(doc[ml[k].MemberId]) # 0}
           rec(k) == doc[ml[k].MemberId][FirstMansfield(doc[ml[k].MemberId])]
           first(skip) == CHOOSE k \in cand :
                            /\ rec(k).SkipID = skip
                            /\ \A j \in cand : rec(j).SkipID = skip => k <= j
           kept == {skip \in {rec(k).SkipID : k \in cand} :
                      OnWednesday(rec(first(skip)))}
       IN /\ SkipIds(result[r]) = kept
          /\ Len(result[r]) = Cardinality(kept)
          /\ \A t \in Range(result[r]) :
               /\ t.day = rec(first(t.skip_id)).Day
               /\ t.time = rec(first(t.skip_id)).Time
               /\ t.league = "Mansfield"
               /\ MemberIdsOf(t) =
                    {ml[k].MemberId : k \in {j \in cand : rec(j).SkipID = t.skip_id}}
               /\ Len(t.members) = Cardinality(MemberIdsOf(t))
          /\ \A info \in Range(mansfield_members[r]) :
               IsMansfield(info.team_data)

\* A run returned a team of two members, one of them placed through a
\* record whose day does not contain "Wednesday".
C4_Witness ==
  \E r \in Runs :
     /\ pc[r] = "done"
     /\ \E t \in Range(result[r]) : Len(t.members) = 2
     /\ \E info \in Range(mansfield_members[r]) :
          /\ info.team_data.SkipID \in SkipIds(result[r])
          /\ ~OnWednesday(info.team_data)

\* ----------------------------------------------------------------- C7
\* C7: a member whose fetch or processing raised is in no team of the run,
\* the run goes on to the end of the member list and returns a result, and
\* the other members are placed as if the failing member had no matching
\* record: the returned teams are those of the first Mansfield record of
\* the male members that were not skipped, kept when the first of them in
\* member-list order has a Wednesday day, each with exactly those members.
C7_FailingMemberIsSkipped ==
  \A r \in Runs :
     /\ \A m \in skipped[r] : \A t \in Range(mansfield_teams[r]) :
          m \notin MemberIdsOf(t)
     /\ skipped[r] # {} => pc[r] \in {"loop", "fetch", "rewrite", "write", "done"}
     /\ pc[r] = "done" =>
          LET ml == members_json[r]
              doc == member_team_datas[r].doc
              cand == {k \in 1..Len(ml) :
                         /\ IsM(ml[k])
                         /\ ml[k].MemberId \notin skipped[r]
                         /\ ml[k].MemberId \in DOMAIN doc
                         /\ \E e \in Range(doc[ml[k].MemberId]) : IsMansfield(e)}
              rec(k) == LET td == doc[ml[k].MemberId]
                        IN td[CHOOSE j \in 1..Len(td) :
                                /\ IsMansfield(td[j])
                                /\ \A i \in 1..(j - 1) : ~IsMansfield(td[i])]
              first(skip) == CHOOSE k \in cand :
                               /\ rec(k).SkipID = skip
                               /\ \A j \in cand : rec(j).SkipID = skip => k <= j
              kept == {skip \in {rec(k).SkipID : k \in cand} :
                         OnWednesday(rec(first(skip)))}
          IN /\ idx[r] = Len(ml) + 1
             /\ SkipIds(result[r]) = kept
             /\ \A t \in Range(result[r]) :
                  MemberIdsOf(t) =
                    {ml[k].MemberId : k \in {j \in cand : rec(j).SkipID = t.skip_id}}

\* ----------------------------------------------------------------- C8
\* The first of Lead, Second, Vice, Skip, Fifth whose id is the member's.
ExpectedPosition(member_id, team_data) ==
  LET roles == << [name |-> "Lead", id |-> team_data.LeadID],
                  [name |-> "Second", id |-> team_data.SecondID],
                  [name |-> "Vice", id |-> team_data.ViceID],
                  [name |-> "Skip", id |-> team_data.SkipID],
                  [name |-> "Fifth", id |-> team_data.FifthID] >>
      match == {i \in 1..5 : roles[i].id = member_id}
  IN IF match = {} THEN "None"
     ELSE roles[CHOOSE i \in match : \A j \in match : i <= j].name

\* C8: in a finished run every candidate is entered in the team of its
\* matched record with the position of the first role id, in the order
\* Lead, Second, Vice, Skip, Fifth, that equals its member id, and with no
\* position when none does.
C8_PositionByRolePriority ==
  \A r \in Runs :
     pc[r] = "done" =>
       \A info \in Range(mansfield_members[r]) :
          \E t \in Range(mansfield_teams[r]) :
             /\ t.skip_id = info.team_data.SkipID
             /\ \E e \in Range(t.members) :
                  /\ e.member_id = info.member_id
                  /\ e.position = ExpectedPosition(info.member_id, info.team_data)
                  /\ info.member_id = info.team_data.LeadID => e.position = "Lead"

C8_Witness ==
  \E r \in Runs :
     /\ pc[r] = "done"
     /\ \E t \in Range(result[r]) : \E e \in Range(t.members) :
          /\ e.position = "Lead"
          /\ e.member_id = t.skip_id
     /\ \E t \in Range(result[r]) : \E e \in Range(t.members) :
          e.position = "None"

\* ----------------------------------------------------------------- C5
Current(r) == members_json[r][idx[r]]
ServedFromDisk(r) ==
  /\ pc[r] = "loop"
  /\ idx[r] <= Len(members_json[r])
  /\ IsM(Current(r))
  /\ KeyStr(Current(r).MemberId) \in DOMAIN teamFile.doc

\* C5: with one Season at a time on the cache directory the team-record
\* document only grows from call to call: a call for a member the file
\* holds is served without a fetch and leaves the file alone; what a Season
\* holds in memory between calls is the file read back with integer keys; a
\* call that fetched a member holds in memory the file's document and that
\* member's entry, nothing else, and keeps it until it has written it; the
\* file changes only in such a call, emptied when the call opens it and
\* then holding exactly the call's memory; so every entry written stays
\* with the value first fetched.
C5_TeamFileOnlyGrows ==
  [][ /\ \A k \in DOMAIN teamFile.doc :
           \/ k \in DOMAIN teamFile'.doc /\ teamFile'.doc[k] = teamFile.doc[k]
           \/ \E r \in Runs :
                /\ pc[r] = "rewrite" /\ pc'[r] = "write"
                /\ IntOf(k) \in DOMAIN member_team_datas[r].doc
                /\ member_team_datas[r].doc[IntOf(k)] = teamFile.doc[k]
      /\ \A r \in Runs :
           (ServedFromDisk(r) /\ idx'[r] # idx[r]) =>
              /\ teamFile' = teamFile
              /\ net'[r] = net[r]
              /\ pc'[r] = "loop"
              /\ member_team_datas'[r].doc = LoadDoc(teamFile)
      /\ \A r \in Runs :
           (pc[r] \in {"loop", "fetch"} /\ member_team_datas[r].loaded) =>
              member_team_datas[r].doc = LoadDoc(teamFile)
      /\ \A r \in Runs :
           pc[r] = "rewrite" =>
              /\ Current(r).MemberId \notin DOMAIN LoadDoc(teamFile)
              /\ DOMAIN member_team_datas[r].doc =
                   DOMAIN LoadDoc(teamFile) \cup {Current(r).MemberId}
              /\ \A m \in DOMAIN LoadDoc(teamFile) :
                   member_team_datas[r].doc[m] = LoadDoc(teamFile)[m]
      /\ \A r \in Runs :
           pc[r] \in {"rewrite", "write"} =>
              member_team_datas'[r] = member_team_datas[r]
      /\ teamFile' # teamFile =>
           \E r \in Runs :
              \/ /\ pc[r] = "rewrite" /\ pc'[r] = "write"
                 /\ teamFile'.state = "empty"
              \/ /\ pc[r] = "write" /\ pc'[r] = "loop"
                 /\ teamFile.state = "empty"
                 /\ teamFile'.state = "json"
                 /\ LoadDoc(teamFile') = member_team_datas[r].doc
    ]_vars

\* A second Season, created after the first finished, was served the first
\* Season's entry from the file and added one of its own.
C5_Witness ==
  /\ <<1, 1>> \in written
  /\ <<2, 2>> \in written
  /\ <<1, 2>> \notin written
  /\ pc[2] = "done"
  /\ DOMAIN teamFile.doc = {KeyStr(1), KeyStr(2)}
  /\ teamFile.doc[KeyStr(1)] # <<>>

\* ---------------------------------------------------------------- C10
\* C10: runs that interleave on one cache directory can lose an entry of
\* the team-record file (the witness); an entry a run wrote stays in that
\* run's memory, a file that holds a document holds no more than the last
\* writer's memory, an entry is missing from such a file only after a
\* rewrite by another run, and the file is left without a document only
\* when the last writer wrote over what another run had written.
C10_EntryLostOnlyToAnotherRun ==
  /\ \A w \in written : w[1] \in DOMAIN member_team_datas[w[2]].doc
  /\ teamFile.state = "json" =>
       /\ lastWriter \in Runs
       /\ \A k \in DOMAIN teamFile.doc :
            IntOf(k) \in DOMAIN member_team_datas[lastWriter].doc
       /\ \A w \in written :
            KeyStr(w[1]) \notin DOMAIN teamFile.doc => lastWriter \notin {0, w[2]}
  /\ teamFile.state = "garbled" =>
       /\ lastWriter \in Runs
       /\ \E w \in written : w[2] # lastWriter

\* Every run has ended, the file holds a document and an entry that one of
\* the runs wrote is not in it.
C10_Witness ==
  /\ \A r \in Runs : pc[r] = "done"
  /\ teamFile.state = "json"
  /\ \E w \in written : KeyStr(w[1]) \notin DOMAIN teamFile.doc

\* ----------------------------------------------------------------- C6
UncachedAvatarCall ==
  client.last.op = "avatar" /\ client.last.member # None /\ ~client.last.cached

\* C6 (as claimed): a call for a member with no cached file stores the image
\* and returns its path exactly when the response has status 200 and at
\* least 1000 bytes; otherwise it returns None and no file exists.
C6_StoredFromThousandBytes ==
  UncachedAvatarCall =>
    /\ client.last.returned \in {"path", "None"}
    /\ client.last.returned = "path" <=>
         (client.last.status = HttpOk /\ client.last.size >= AvatarMinBytes)
    /\ client.last.member \in avatarFiles <=> client.last.returned = "path"

\* C6 (amended): the image is stored and its path returned exactly when a
\* response was received with status 200 and more than 1000 bytes; in every
\* other case (other status, 1000 bytes or fewer, rejected login, failed
\* request) the call returns None, raises nothing and leaves no file.
C6_StoredAboveThousandBytes ==
  UncachedAvatarCall =>
    /\ client.last.returned \in {"path", "None"}
    /\ client.last.returned = "path" <=>
         (client.last.status = HttpOk /\ client.last.size > AvatarMinBytes)
    /\ client.last.member \in avatarFiles <=> client.last.returned = "path"

\* A 200 response of exactly 1000 bytes was turned down after an image had
\* been stored for another member.
C6_Witness ==
  /\ UncachedAvatarCall
  /\ client.last.status = HttpOk
  /\ client.last.size = AvatarMinBytes
  /\ client.last.returned = "None"
  /\ client.last.member \notin avatarFiles
  /\ avatarFiles # {}

\* ----------------------------------------------------------------- C9
\* C9: a new client has made no network call and holds no session; a call
\* that needs the session while none is held makes exactly one login
\* handshake; once a login has succeeded the session is kept and no later
\* call of any kind makes another handshake.
C9_SessionLazyAndReused ==
  [][ /\ client.calls = 0 =>
           ~client.session /\ client.handshakes = 0 /\ client.gets = 0
      /\ client.session =>
           client'.session /\ client'.handshakes = client.handshakes
      /\ (~client.session /\ client'.calls # client.calls
            /\ client'.last.login # "none") =>
           /\ client'.handshakes = client.handshakes + 1
           /\ client'.session <=> client'.last.login = "ok"
    ]_vars

\* After one handshake the client served a member list, a team list and an
\* avatar request on the same session.
C9_Witness ==
  /\ client.session
  /\ client.handshakes = 1
  /\ client.gets = 3
  /\ client.last.op = "avatar"
  /\ client.last.login = "held"
  /\ client.last.returned = "path"

\* ---------------------------------------------------------------- C11
\* C11: the member-list cache file of the year exists only if it holds a
\* member list fetched from the portal: a get_members_json call whose fetch
\* raises leaves no file behind, so once every call has returned or raised
\* a file that exists is not empty, and a run never ends in failure without
\* having asked the portal.
C11_MemberFileHoldsFetchedList ==
  /\ NoRunActive => membersFile.state \in {"absent", "json"}
  /\ \A r \in Runs :
       pc[r] = "failed" => net[r].handshakes + net[r].gets > 0

====
